---- MODULE Spec2Model ----
(***************************************************************************)
(* BlackLine: the Command Hub (server.py, database.py) and the Agent       *)
(* Runtime (client.py) as state machines.                                  *)
(*                                                                         *)
(* Every coroutine is cut at its await points: between two awaits the      *)
(* asyncio event loop runs nothing else, so the code between them is one   *)
(* atomic action.                                                          *)
(***************************************************************************)
EXTENDS Integers, Sequences, FiniteSets, TLC

(* ------------------------------ bounds -------------------------------- *)
\* transport channels the Hub accepts over a run (each is a fresh WebSocket)
MaxChan == 2
\* channels in the runs that follow screenshot requests
ShotChan == 1
\* concurrent /screenshot calls (send_screenshot coroutines)
MaxReq == 2
\* channels in the runs that follow the addressed commands
CmdChan == 1
\* connection attempts of the Agent Runtime that are counted
MaxAttempts == 3
\* the stream frames sent are counted modulo FrameMod
FrameMod == 2

(* ------------------------- program constants -------------------------- *)
\* client.py RECONNECT_DELAY, seconds
RECONNECT_DELAY == 5

Chans == 1..MaxChan
Reqs == 1..MaxReq
\* agent names supplied in the connection path /ws/{client_name}
Names == {"desk1", "desk2"}
\* client ids an operator may type: every id the table can assign, and one more
Ids == 1..(Cardinality(Names) + 1)

NoVal == "none"

(* --------------------------- partial maps ----------------------------- *)
\* d[k] = v  (Python dict item assignment)
Put(d, k, v) == [x \in (DOMAIN d) \cup {k} |-> IF x = k THEN v ELSE d[x]]
\* del d[k]
Del(d, k) == [x \in (DOMAIN d) \ {k} |-> d[x]]
EmptyMap == [x \in {} |-> NoVal]

VARIABLES
    \* ---- Hub: transport and per-connection handler (websocket_endpoint)
    chan,                \* chan[c]: "none" | "open" | "closed"
    hpc,                 \* hpc[c]: position of websocket_endpoint for channel c
    hname,               \* hname[c]: client_name of the connection path
    hid,                 \* hid[c]: client.id returned by get_or_create_client
    \* ---- Hub: database.py, table clients (row id = index)
    clients,
    \* ---- Hub: ConnectionManager
    active_connections,  \* client_id -> channel
    name_to_id,          \* client_name -> client_id
    \* ---- Hub: send_screenshot
    screenshot_pending,  \* client_id -> request whose Future is stored
    rpc,                 \* rpc[r]: position of send_screenshot call r
    rid,                 \* rid[r]: its client_id argument
    fut,                 \* fut[r]: state of its asyncio.Future
    rsent,               \* rsent[r]: what send_to_client returned to it
    rres,                \* rres[r]: the message the operator got
    owed,                \* owed[c]: screenshot_request envelopes handed to channel
                         \* c that the agent has not answered yet
    \* ---- Hub: the other operator commands
    listOut,             \* cmd_list between its two awaits: <<the marks of the
                         \* rows it read>>, and << >> when no /list is running
    lastCmd,             \* the last /shutdown, /browser, /type or direct
                         \* send_to_client call: what it did
    \* ---- Agent Runtime: BlackLineClient
    apc,                 \* position of BlackLineClient.run
    ws,                  \* self.ws: "None", or a connection "open" / "closed"
    is_streaming,        \* self.is_streaming
    stream_task,         \* self.stream_task: "None", or the task's state
    loops,               \* _stream_screen tasks created and not yet ended
    cur,                 \* type of the message process_message is handling, or
                         \* has handled last on this connection
    log,                 \* what that dispatch has done so far: the envelopes it
                         \* put on the channel and the platform calls it made
    attempts,            \* calls of connect() so far
    streak,              \* how many of the latest of them failed in a row
    waited,              \* seconds slept in asyncio.sleep since the last attempt
    frames,              \* stream_frame envelopes put on the channel so far
    quiet,               \* a stop_stream ack went out and no start_stream
                         \* has been received since
    reachable,           \* websockets.connect to the Hub would succeed now
    msg                  \* the fields of the mouse_event or keyboard_event
                         \* envelope being handled, or handled last

connVars == <<chan, hpc, hname, hid, clients, active_connections, name_to_id>>
shotVars == <<screenshot_pending, rpc, rid, fut, rsent, rres, owed>>
cmdVars == <<listOut, lastCmd>>
hubVars == <<connVars, shotVars, cmdVars>>
streamVars == <<is_streaming, stream_task, loops>>
loopVars == <<attempts, streak, waited>>
wireVars == <<frames, quiet>>
agentVars == <<apc, ws, streamVars, cur, log, loopVars, wireVars, reachable, msg>>

vars == <<hubVars, agentVars>>

(* ============================ database.py ============================== *)
\* SELECT ... FROM clients WHERE name = ?  (the ids of the matching rows)
RowsNamed(n) == {i \in 1..Len(clients) : clients[i].name = n}

\* UPDATE clients SET status = ? WHERE id = ?   (update_client_status)
update_client_status(id, st) ==
    [i \in 1..Len(clients) |->
        IF i = id THEN [clients[i] EXCEPT !.status = st] ELSE clients[i]]

(* ========================= ConnectionManager =========================== *)
\* ConnectionManager.disconnect: the two maps after disconnect(client_id)
disconnect_conns(id) ==
    IF id \in DOMAIN active_connections
    THEN Del(active_connections, id) ELSE active_connections

\* a disconnect that leaves name_to_id alone
disconnect_names_keep(id) == name_to_id

disconnect_names(id) ==
    [n \in {m \in DOMAIN name_to_id : name_to_id[m] # id} |-> name_to_id[n]]

\* The transport under ws.send_json: the frame goes out on an open channel,
\* and the call raises on a channel the peer has closed.
ws_send_ok(c) == chan[c] = "open"

\* send_to_client with an except clause that reports success.
send_to_client_true_on_error(id) ==
    IF id \notin DOMAIN active_connections THEN "False" ELSE "True"

\* ConnectionManager.send_to_client: its return value. The except clause
\* turns a raising send_json into False.
send_to_client(id) ==
    IF id \notin DOMAIN active_connections
    THEN "False"
    ELSE IF ws_send_ok(active_connections[id]) THEN "True" ELSE "False"

\* ConnectionManager.send_to_client: the channel its ws.send_json put the
\* frame on, 0 when no frame went out.
handed_to(id) ==
    IF id \in DOMAIN active_connections /\ ws_send_ok(active_connections[id])
    THEN active_connections[id] ELSE 0

(* ========================= websocket_endpoint ========================== *)
\* A peer opens /ws/{n}; manager.connect awaits websocket.accept().
\* Channels are numbered in the order they are opened.
Accept(c, n) ==
    /\ chan[c] = "none"
    /\ (c > 1) => (chan[c - 1] # "none")
    /\ chan' = [chan EXCEPT ![c] = "open"]
    /\ hpc' = [hpc EXCEPT ![c] = "select"]
    /\ hname' = [hname EXCEPT ![c] = n]
    /\ UNCHANGED <<hid, clients, active_connections, name_to_id, shotVars, cmdVars>>
    /\ UNCHANGED agentVars

\* get_or_create_client: the SELECT by name.
DbSelect(c) ==
    /\ hpc[c] = "select"
    /\ IF RowsNamed(hname[c]) # {}
       THEN /\ hid' = [hid EXCEPT ![c] = CHOOSE i \in RowsNamed(hname[c]) : TRUE]
            /\ hpc' = [hpc EXCEPT ![c] = "register"]
       ELSE /\ hpc' = [hpc EXCEPT ![c] = "insert"]
            /\ UNCHANGED hid
    /\ UNCHANGED <<chan, hname, clients, active_connections, name_to_id, shotVars, cmdVars>>
    /\ UNCHANGED agentVars

\* a table whose name column carries no UNIQUE constraint
unique_violation_never(n) == FALSE

\* database.py line 34, name TEXT UNIQUE: the INSERT of name n is refused.
unique_violation(n) == RowsNamed(n) # {}

\* get_or_create_client: the INSERT. name is UNIQUE: when another connection
\* inserted the name since the SELECT, sqlite raises IntegrityError, connect()
\* raises out of websocket_endpoint (line 135 is outside its try) and the
\* server closes the channel.
DbInsert(c) ==
    /\ hpc[c] = "insert"
    /\ IF unique_violation(hname[c])
       THEN /\ hpc' = [hpc EXCEPT ![c] = "dead"]
            /\ chan' = [chan EXCEPT ![c] = "closed"]
            /\ hname' = [hname EXCEPT ![c] = NoVal]
            /\ UNCHANGED <<hid, clients>>
       ELSE /\ clients' = Append(clients, [name |-> hname[c], status |-> "offline"])
            /\ hid' = [hid EXCEPT ![c] = Len(clients) + 1]
            /\ hpc' = [hpc EXCEPT ![c] = "register"]
            /\ UNCHANGED <<chan, hname>>
    /\ UNCHANGED <<active_connections, name_to_id, shotVars, cmdVars>>
    /\ UNCHANGED agentVars

\* manager.connect lines 45-46: store the connection under client.id.
Register(c) ==
    /\ hpc[c] = "register"
    /\ active_connections' = Put(active_connections, hid[c], c)
    /\ name_to_id' = Put(name_to_id, hname[c], hid[c])
    /\ hpc' = [hpc EXCEPT ![c] = "online"]
    /\ UNCHANGED <<chan, hname, hid, clients, shotVars, cmdVars>>
    /\ UNCHANGED agentVars

\* manager.connect line 49: status ONLINE; then the receive loop starts.
SetOnline(c) ==
    /\ hpc[c] = "online"
    /\ clients' = update_client_status(hid[c], "online")
    /\ hpc' = [hpc EXCEPT ![c] = "loop"]
    /\ UNCHANGED <<chan, hname, hid, active_connections, name_to_id, shotVars, cmdVars>>
    /\ UNCHANGED agentVars

\* The peer closes the channel, or the network drops it.
PeerClose(c) ==
    /\ chan[c] = "open"
    /\ chan' = [chan EXCEPT ![c] = "closed"]
    /\ UNCHANGED <<hpc, hname, hid, clients, active_connections, name_to_id, shotVars, cmdVars>>
    /\ UNCHANGED agentVars

\* receive_text raises WebSocketDisconnect: lines 163-164, manager.disconnect.
Disconnect(c) ==
    /\ hpc[c] = "loop"
    /\ chan[c] = "closed"
    /\ active_connections' = disconnect_conns(hid[c])
    /\ name_to_id' = disconnect_names(hid[c])
    /\ hpc' = [hpc EXCEPT ![c] = "offline"]
    /\ UNCHANGED <<chan, hname, hid, clients, shotVars, cmdVars>>
    /\ UNCHANGED agentVars

\* lines 165 / 169: status OFFLINE; the handler returns, its locals are gone
\* and the server closes the channel if it is still open.
SetOffline(c) ==
    /\ hpc[c] = "offline"
    /\ clients' = update_client_status(hid[c], "offline")
    /\ hpc' = [hpc EXCEPT ![c] = "done"]
    /\ chan' = [chan EXCEPT ![c] = "closed"]
    /\ hname' = [hname EXCEPT ![c] = NoVal]
    /\ hid' = [hid EXCEPT ![c] = 0]
    /\ owed' = [owed EXCEPT ![c] = 0]
    /\ UNCHANGED <<active_connections, name_to_id, screenshot_pending, rpc, rid,
                   fut, rsent, rres, cmdVars>>
    /\ UNCHANGED agentVars

\* What one frame of receive_text can hold. "unknown" stands for every JSON
\* object that no branch of lines 147-158 matches (an unknown or missing type,
\* a screenshot or stream_frame without "image"); "nonobject" for valid JSON
\* that is not an object (a list, a number, null).
MsgKinds == {"screenshot", "stream_frame", "ack", "unknown", "badjson", "nonobject"}

\* Whether lines 143-158 raise something other than JSONDecodeError for frame m
\* on channel c: message.get on a non-dict (AttributeError), or set_result on
\* a Future that is already done or cancelled (InvalidStateError).
receive_raises(c, m) ==
    \/ m = "nonobject"
    \/ /\ m = "screenshot"
       /\ hid[c] \in DOMAIN screenshot_pending
       /\ fut[screenshot_pending[hid[c]]] # "pending"

\* a receive loop that resolves the stored Future on any frame with an image
receive_futures_any_image(c, m) ==
    IF m \in {"screenshot", "stream_frame"} /\ hid[c] \in DOMAIN screenshot_pending
    THEN [fut EXCEPT ![screenshot_pending[hid[c]]] = "done"]
    ELSE fut

\* lines 147-149: the Futures after frame m arrived on channel c.
receive_futures(c, m) ==
    IF m = "screenshot" /\ hid[c] \in DOMAIN screenshot_pending
    THEN [fut EXCEPT ![screenshot_pending[hid[c]]] = "done"]
    ELSE fut

\* One iteration of the receive loop, lines 138-161, and for a frame that
\* raises, the except clause of lines 166-168. The agent sends a screenshot
\* only in answer to a screenshot_request.
Receive(c, m) ==
    /\ hpc[c] = "loop"
    /\ chan[c] = "open"
    /\ m = "screenshot" => owed[c] > 0
    /\ owed' = IF m = "screenshot" THEN [owed EXCEPT ![c] = @ - 1] ELSE owed
    /\ IF receive_raises(c, m)
       THEN /\ active_connections' = disconnect_conns(hid[c])
            /\ name_to_id' = disconnect_names(hid[c])
            /\ hpc' = [hpc EXCEPT ![c] = "offline"]
            /\ UNCHANGED fut
       ELSE /\ fut' = receive_futures(c, m)
            /\ UNCHANGED <<hpc, active_connections, name_to_id>>
    /\ UNCHANGED <<chan, hname, hid, clients, screenshot_pending, rpc, rid, rsent, rres, cmdVars>>
    /\ UNCHANGED agentVars

(* ========================== send_screenshot ============================ *)
\* the offline test left out.
is_offline_never(id) == FALSE

\* lines 179, 258, 282, 306: the offline test of every addressed command.
is_offline(id) == id \notin DOMAIN active_connections

\* a finally clause that leaves the entry in place.
shot_finally_keep(id) == screenshot_pending

\* lines 205-207: the finally clause.
shot_finally(id) ==
    IF id \in DOMAIN screenshot_pending
    THEN Del(screenshot_pending, id) ELSE screenshot_pending

\* owed after send_to_client(id, {"type": "screenshot_request"})
owed_after_send(id) ==
    IF handed_to(id) # 0 THEN [owed EXCEPT ![handed_to(id)] = @ + 1] ELSE owed

\* /screenshot id, lines 179-192 up to the wait: the offline answer, or the
\* Future stored under client_id and the request sent.
ShotStart(r, id) ==
    /\ rpc[r] = "idle"
    /\ (r > 1) => (rpc[r - 1] # "idle")
    /\ rid' = [rid EXCEPT ![r] = id]
    /\ IF is_offline(id)
       THEN /\ rres' = [rres EXCEPT ![r] = "offline"]
            /\ rpc' = [rpc EXCEPT ![r] = "done"]
            /\ UNCHANGED <<screenshot_pending, fut, rsent, owed>>
       ELSE /\ fut' = [fut EXCEPT ![r] = "pending"]
            /\ screenshot_pending' = Put(screenshot_pending, id, r)
            /\ rsent' = [rsent EXCEPT ![r] = send_to_client(id)]
            /\ owed' = owed_after_send(id)
            /\ rpc' = [rpc EXCEPT ![r] = "wait"]
            /\ UNCHANGED rres
    /\ UNCHANGED <<connVars, cmdVars>>
    /\ UNCHANGED agentVars

\* asyncio.wait_for: the 10 s pass with the Future not done; wait_for cancels
\* it and raises TimeoutError (line 199, then the await of line 200).
ShotTimeout(r) ==
    /\ rpc[r] = "wait"
    /\ fut[r] = "pending"
    /\ fut' = [fut EXCEPT ![r] = "cancelled"]
    /\ rpc' = [rpc EXCEPT ![r] = "timeout"]
    /\ UNCHANGED <<connVars, cmdVars, screenshot_pending, rid, rsent, rres, owed>>
    /\ UNCHANGED agentVars

\* lines 200-201 and the finally clause: the timeout message is out, and the
\* call returns (its Future and locals are gone).
ShotTimeoutExit(r) ==
    /\ rpc[r] = "timeout"
    /\ rres' = [rres EXCEPT ![r] = "timeout"]
    /\ screenshot_pending' = shot_finally(rid[r])
    /\ rpc' = [rpc EXCEPT ![r] = "done"]
    /\ fut' = [fut EXCEPT ![r] = "none"]
    /\ rsent' = [rsent EXCEPT ![r] = NoVal]
    /\ UNCHANGED <<connVars, cmdVars, rid, owed>>
    /\ UNCHANGED agentVars

\* lines 192-197 with the Future done, and the finally clause: the photo is
\* sent, or b64decode / send_photo raises and line 203 reports the error.
ShotComplete(r, ok) ==
    /\ rpc[r] = "wait"
    /\ fut[r] = "done"
    /\ rres' = [rres EXCEPT ![r] = IF ok THEN "photo" ELSE "error"]
    /\ screenshot_pending' = shot_finally(rid[r])
    /\ rpc' = [rpc EXCEPT ![r] = "done"]
    /\ fut' = [fut EXCEPT ![r] = "none"]
    /\ rsent' = [rsent EXCEPT ![r] = NoVal]
    /\ UNCHANGED <<connVars, cmdVars, rid, owed>>
    /\ UNCHANGED agentVars

(* ===================== /shutdown, /browser, /type ====================== *)
CmdKinds == {"shutdown", "browser", "type"}

NoCmd == [kind |-> NoVal, id |-> 0, ret |-> NoVal, to |-> 0, reply |-> NoVal]

\* cmd_shutdown, cmd_browser, cmd_type from the offline test on (lines 258-263,
\* 282-287, 306-311), with a well-formed command text: the offline answer, or
\* send_to_client and then the "sent" answer.
Cmd(k, id) ==
    /\ lastCmd' =
         IF is_offline(id)
         THEN [kind |-> k, id |-> id, ret |-> NoVal, to |-> 0, reply |-> "offline"]
         ELSE [kind |-> k, id |-> id, ret |-> send_to_client(id),
               to |-> handed_to(id), reply |-> "sent"]
    /\ UNCHANGED <<connVars, shotVars, listOut>>
    /\ UNCHANGED agentVars

\* ConnectionManager.send_to_client called by itself (as broadcast does for
\* each key it copied before its awaits), for any client_id.
SendToClient(id) ==
    /\ lastCmd' = [kind |-> "send", id |-> id, ret |-> send_to_client(id),
                   to |-> handed_to(id), reply |-> NoVal]
    /\ UNCHANGED <<connVars, shotVars, listOut>>
    /\ UNCHANGED agentVars

(* ============================== /list ================================= *)
\* cmd_list lines 220-222 (and get_clients): the online mark of each row is
\* drawn from the row's status column.
cmd_list_online(row) == row.status = "online"

\* cmd_list line 213: the rows of get_all_clients, with the mark of each.
CmdListRead ==
    /\ listOut = << >>
    /\ listOut' = << [i \in 1..Len(clients) |-> cmd_list_online(clients[i])] >>
    /\ UNCHANGED <<connVars, shotVars, lastCmd>>
    /\ UNCHANGED agentVars

\* cmd_list lines 216 / 224: the answer is out.
CmdListAnswer ==
    /\ listOut # << >>
    /\ listOut' = << >>
    /\ UNCHANGED <<connVars, shotVars, lastCmd>>
    /\ UNCHANGED agentVars

(* ======================= client.py: envelopes ========================== *)
\* the eight command kinds process_message dispatches on (lines 340-368)
CommandKinds == {"screenshot_request", "shutdown", "browser", "type",
                 "mouse_event", "keyboard_event", "start_stream", "stop_stream"}

\* What one frame of ws.recv can hold besides a command: a JSON object with
\* another type, one without type, JSON that is no object, text that is not
\* JSON and that json.loads rejects with JSONDecodeError, and "binary": a
\* frame on which json.loads raises another error (bytes that are not UTF-8:
\* UnicodeDecodeError; brackets nested beyond the recursion limit:
\* RecursionError).
OtherFrames == {"unknown", "notype", "nonobject", "badjson", "binary"}

Ack(k) == <<"ack", k>>
Screenshot == <<"screenshot", "image">>
OsShutdown == <<"os.system", "shutdown">>
\* asyncio.create_task(self._stream_screen()), line 306
CreateTask == <<"create_task", "_stream_screen">>
\* self.stream_task.cancel(), lines 69 and 317
CancelTask == <<"cancel", "stream_task">>

\* the fields of a mouse_event or keyboard_event envelope, here of none;
\* "absent" as a field: the envelope has no such key
NoMsg == [event |-> NoVal, button |-> NoVal, key |-> NoVal, xy |-> FALSE]

\* BlackLineClient.send: the envelopes that reach the channel out of es. With
\* self.ws None nothing is tried; on a closed connection ws.send raises and
\* the except clause drops the envelope.
send(es) == IF ws = "open" THEN es ELSE << >>

\* The handlers that run between two awaits of the event loop without giving
\* the stream task a turn that matters: what they try to send when the side
\* effect (capture, webbrowser.open, pyautogui call) raises (fail) or not.
\* _capture_screen catches its own errors and returns b"", so the screenshot
\* is left out and the ack follows; in the other four the ack is the last
\* statement of the try block and an exception skips it.
handler_sends(k, fail) ==
    IF k = "screenshot_request"
    THEN (IF fail THEN <<Ack(k)>> ELSE <<Screenshot, Ack(k)>>)
    ELSE (IF fail THEN << >> ELSE <<Ack(k)>>)

SimpleKinds == {"screenshot_request", "browser", "type"}

\* an error envelope in answer to a frame that is not a command
ignored_sends_error(m) == << <<"error", m>> >>

\* lines 335-336, 370-373, 401-403: what is sent for a frame that is not a
\* command.
ignored_sends(m) == << >>

\* the platform shutdown placed before the ack
shutdown_first_swapped == <<OsShutdown>>

\* handle_shutdown lines 168-169: what it does before the sleep of line 172.
shutdown_first == <<Ack("shutdown")>>

\* a stop or cleanup that finds no task whatever the handle holds
has_task_never == FALSE

\* a stop that takes the handle for a task whatever it holds
has_task_always == TRUE

\* lines 68 and 316: if self.stream_task.
has_task == stream_task # "None"

\* a start that spawns without looking at the flag
start_spawns_always == TRUE

\* line 304: if not self.is_streaming.
start_spawns == ~is_streaming

\* an await of the task that returns before the task has ended
task_done_at_once == TRUE

\* lines 71 and 319: await self.stream_task returns (or raises CancelledError,
\* which lines 72 and 320 catch) once the task has ended.
task_done == stream_task = "ended"

(* ========================= BlackLineClient.run ========================= *)
\* a continue placed before the sleep: the retry follows at once
after_connect_fail_no_sleep == "connect"

\* lines 387-390: where run goes when connect() returned False.
after_connect_fail == "sleepfail"

\* a run that returns after the cleanup
after_cleanup_stop == "stopped"

\* lines 412-414: where run goes when disconnect() has returned.
after_cleanup == "sleep"

\* the positions of run, all of them inside its while True
RunPositions == {"connect", "sleepfail", "recv", "grace", "stop_wait",
                 "cleanup_wait", "sleep"}

\* the counters of the loop, kept up to MaxAttempts
Inc(n) == IF n < MaxAttempts THEN n + 1 ELSE n

\* The Hub, or the network path to it, comes up or goes down.
NetChange ==
    /\ reachable' = ~reachable
    /\ UNCHANGED <<apc, ws, streamVars, cur, log, loopVars, wireVars>>
    /\ UNCHANGED msg
    /\ UNCHANGED hubVars

\* lines 384-387, connect(): websockets.connect succeeds.
AConnectOk ==
    /\ apc = "connect"
    /\ reachable
    /\ ws' = "open"
    /\ apc' = "recv"
    /\ attempts' = Inc(attempts)
    /\ streak' = 0
    /\ waited' = 0
    /\ cur' = NoVal
    /\ log' = << >>
    /\ UNCHANGED <<streamVars, wireVars, reachable>>
    /\ msg' = NoMsg
    /\ UNCHANGED hubVars

\* lines 384-388, connect(): websockets.connect raises, connect returns False.
AConnectFail ==
    /\ apc = "connect"
    /\ ~reachable
    /\ apc' = after_connect_fail
    /\ attempts' = Inc(attempts)
    /\ streak' = Inc(streak)
    /\ waited' = 0
    /\ UNCHANGED <<ws, streamVars, cur, log, wireVars, reachable>>
    /\ UNCHANGED msg
    /\ UNCHANGED hubVars

\* lines 389-390: asyncio.sleep(RECONNECT_DELAY); continue.
ASleepFail ==
    /\ apc = "sleepfail"
    /\ waited' = waited + RECONNECT_DELAY
    /\ apc' = "connect"
    /\ UNCHANGED <<ws, streamVars, cur, log, attempts, streak, wireVars, reachable>>
    /\ UNCHANGED msg
    /\ UNCHANGED hubVars

\* The Hub closes the connection, or the network drops it.
AServerClose ==
    /\ ws = "open"
    /\ ws' = "closed"
    /\ UNCHANGED <<apc, streamVars, cur, log, loopVars, wireVars, reachable>>
    /\ UNCHANGED msg
    /\ UNCHANGED hubVars

\* lines 395-397 with a frame that is dispatched to one of the one-step
\* handlers handle_screenshot_request, handle_browser, handle_type.
ARecvSimple(k, fail) ==
    /\ apc = "recv"
    /\ ws = "open"
    /\ cur' = k
    /\ log' = send(handler_sends(k, fail))
    /\ UNCHANGED <<apc, ws, streamVars, loopVars, wireVars, reachable>>
    /\ msg' = NoMsg
    /\ UNCHANGED hubVars

\* lines 395-397 with a frame that sends nothing: invalid JSON (line 401), a
\* JSON value that is no object (message.get raises inside process_message,
\* line 373), no type (line 336), an unknown type (line 371).
ARecvIgnored(m) ==
    /\ apc = "recv"
    /\ ws = "open"
    /\ m \in OtherFrames \ {"binary"}
    /\ cur' = m
    /\ log' = send(ignored_sends(m))
    /\ UNCHANGED <<apc, ws, streamVars, loopVars, wireVars, reachable>>
    /\ msg' = NoMsg
    /\ UNCHANGED hubVars

(* ---------------------- mouse_event, keyboard_event -------------------- *)
\* values of the event field: the six names handle_mouse_event tests, another
\* string, no field
MouseEvents == {"absent", "mousemove", "mousedown", "mouseup", "click",
                "doubleclick", "wheel", "other"}
\* values of the button field: the codes 0, 1, 2, another value, no field
Buttons == {"absent", "0", "1", "2", "3"}

\* line 355: message.get('event', '')
event_param(ev) == IF ev = "absent" THEN "" ELSE ev

\* line 356: handle_mouse_event(event, **message) binds event a second time
\* from the key event of message when there is one, and the call raises
\* TypeError (caught by line 373).
mouse_call_binds(ev) == ev = "absent"

\* line 206: kwargs.get('button', 1)
button_arg(b) == IF b = "absent" THEN "1" ELSE b

\* lines 211-212: button_map.get(button, 'left')
button_map_get(b) ==
    CASE b = "0" -> "left"
      [] b = "1" -> "middle"
      [] b = "2" -> "right"
      [] OTHER -> "left"

pyautogui_button(b) == button_map_get(button_arg(b))

\* lines 215-216 and the like: moveTo when x and y are both given
move_calls(xy) == IF xy THEN << <<"pyautogui.moveTo", "x,y">> >> ELSE << >>

\* lines 214-237: the pyautogui calls for the value e of parameter event.
mouse_calls(e, b, xy) ==
    CASE e = "mousemove" -> move_calls(xy)
      [] e = "mousedown" ->
            move_calls(xy) \o << <<"pyautogui.mouseDown", pyautogui_button(b)>> >>
      [] e = "mouseup" -> << <<"pyautogui.mouseUp", pyautogui_button(b)>> >>
      [] e = "click" ->
            move_calls(xy) \o << <<"pyautogui.click", pyautogui_button(b)>> >>
      [] e = "doubleclick" ->
            move_calls(xy) \o << <<"pyautogui.doubleClick", pyautogui_button(b)>> >>
      [] e = "wheel" -> << <<"pyautogui.scroll", "-deltaY">> >>
      [] OTHER -> << >>

\* What a handler has done when its pyautogui calls are cs: the calls and the
\* ack, or the first call alone when it raised (the rest of the try block,
\* the ack last in it, is skipped and the except block only prints).
calls_then_ack(k, cs, fail) ==
    IF fail /\ cs # << >> THEN <<cs[1]>> ELSE cs \o send(<<Ack(k)>>)

\* lines 354-356 and handle_mouse_event.
AMouseEvent(ev, b, xy, fail) ==
    /\ apc = "recv"
    /\ ws = "open"
    /\ cur' = "mouse_event"
    /\ msg' = [event |-> ev, button |-> b, key |-> NoVal, xy |-> xy]
    /\ log' = IF mouse_call_binds(ev)
              THEN calls_then_ack("mouse_event", mouse_calls(event_param(ev), b, xy), fail)
              ELSE << >>
    /\ UNCHANGED <<apc, ws, streamVars, loopVars, wireVars, reachable>>
    /\ UNCHANGED hubVars

\* values of the event field of a keyboard_event
KeyEvents == {"absent", "keydown", "keyup", "other"}
\* values of the key field: names of the tables, a literal key, no field
Keys == {"absent", "Enter", "Escape", "ArrowUp", "Shift", "Meta", "F1", "F12", "a"}

\* lines 249-267: key_map of the keydown branch
KeyDownMap ==
    [Enter |-> "enter", Escape |-> "esc", Backspace |-> "backspace",
     Delete |-> "delete", ArrowUp |-> "up", ArrowDown |-> "down",
     ArrowLeft |-> "left", ArrowRight |-> "right", Tab |-> "tab",
     Space |-> "space", Control |-> "ctrl", Alt |-> "alt", Shift |-> "shift",
     Meta |-> "command",
     F1 |-> "f1", F2 |-> "f2", F3 |-> "f3", F4 |-> "f4", F5 |-> "f5",
     F6 |-> "f6", F7 |-> "f7", F8 |-> "f8", F9 |-> "f9", F10 |-> "f10",
     F11 |-> "f11", F12 |-> "f12"]

\* lines 276-291: key_map of the keyup branch
KeyUpMap ==
    [Enter |-> "enter", Escape |-> "esc", Backspace |-> "backspace",
     Delete |-> "delete", ArrowUp |-> "up", ArrowDown |-> "down",
     ArrowLeft |-> "left", ArrowRight |-> "right", Tab |-> "tab",
     Space |-> "space", Control |-> "ctrl", Alt |-> "alt", Shift |-> "shift",
     Meta |-> "command"]

\* key_map.get(key, key), lines 269 and 293; an absent key is None and passes
\* through as None
map_get(map, k) == IF k \in DOMAIN map THEN map[k] ELSE k
keydown_key(k) == map_get(KeyDownMap, k)
keyup_key(k) == map_get(KeyUpMap, k)

\* lines 247-294: the pyautogui call for the value e of parameter event.
keyboard_calls(e, k) ==
    CASE e = "keydown" -> << <<"pyautogui.keyDown", keydown_key(k)>> >>
      [] e = "keyup" -> << <<"pyautogui.keyUp", keyup_key(k)>> >>
      [] OTHER -> << >>

\* lines 358-362 and handle_keyboard_event.
AKeyboardEvent(ev, k, fail) ==
    /\ apc = "recv"
    /\ ws = "open"
    /\ cur' = "keyboard_event"
    /\ msg' = [event |-> ev, button |-> NoVal, key |-> k, xy |-> FALSE]
    /\ log' = calls_then_ack("keyboard_event", keyboard_calls(event_param(ev), k), fail)
    /\ UNCHANGED <<apc, ws, streamVars, loopVars, wireVars, reachable>>
    /\ UNCHANGED hubVars

\* handle_shutdown lines 167-172: the ack, then asyncio.sleep(0.5).
AShutdownAck ==
    /\ apc = "recv"
    /\ ws = "open"
    /\ cur' = "shutdown"
    /\ log' = send(shutdown_first)
    /\ apc' = "grace"
    /\ UNCHANGED <<ws, streamVars, loopVars, wireVars, reachable>>
    /\ msg' = NoMsg
    /\ UNCHANGED hubVars

\* handle_shutdown lines 175-181: os.system runs, or raises and is logged.
AShutdownRun(fail) ==
    /\ apc = "grace"
    /\ log' = IF fail THEN log ELSE Append(log, OsShutdown)
    /\ apc' = "recv"
    /\ UNCHANGED <<ws, streamVars, cur, loopVars, wireVars, reachable>>
    /\ UNCHANGED msg
    /\ UNCHANGED hubVars

\* handle_start_stream lines 303-308.
AStartStream ==
    /\ apc = "recv"
    /\ ws = "open"
    /\ cur' = "start_stream"
    /\ IF start_spawns
       THEN /\ is_streaming' = TRUE
            /\ stream_task' = "new"
            /\ loops' = loops + 1
            /\ log' = <<CreateTask>> \o send(<<Ack("start_stream")>>)
       ELSE /\ log' = send(<<Ack("start_stream")>>)
            /\ UNCHANGED streamVars
    /\ quiet' = FALSE
    /\ UNCHANGED <<apc, ws, loopVars, frames, reachable>>
    /\ msg' = NoMsg
    /\ UNCHANGED hubVars

\* handle_stop_stream lines 314-319 up to the await of the cancelled task, or
\* all of it (lines 314-324) when there is no task.
AStopStream ==
    /\ apc = "recv"
    /\ ws = "open"
    /\ cur' = "stop_stream"
    /\ is_streaming' = FALSE
    /\ IF has_task
       THEN /\ stream_task' = "cancel_req"
            /\ log' = <<CancelTask>>
            /\ apc' = "stop_wait"
            /\ UNCHANGED quiet
       ELSE /\ log' = send(<<Ack("stop_stream")>>)
            /\ quiet' = TRUE
            /\ UNCHANGED <<stream_task, apc>>
    /\ UNCHANGED <<ws, loops, loopVars, frames, reachable>>
    /\ msg' = NoMsg
    /\ UNCHANGED hubVars

\* handle_stop_stream lines 319-324: the task has ended; the ack.
AStopDone ==
    /\ apc = "stop_wait"
    /\ task_done
    /\ stream_task' = "None"
    /\ log' = log \o send(<<Ack("stop_stream")>>)
    /\ quiet' = (quiet \/ ws = "open")
    /\ apc' = "recv"
    /\ UNCHANGED <<ws, is_streaming, loops, cur, loopVars, frames, reachable>>
    /\ UNCHANGED msg
    /\ UNCHANGED hubVars

\* disconnect() lines 66-78 up to the await of the cancelled task, or all of
\* it when there is no task: the positions and handles after the break of
\* line 400 or 406.
cleanup_task == IF has_task THEN "cancel_req" ELSE stream_task
cleanup_ws == IF has_task THEN ws ELSE "None"
cleanup_pc == IF has_task THEN "cleanup_wait" ELSE after_cleanup

\* lines 398-400: recv raises ConnectionClosed on a closed connection; break;
\* then disconnect().
ARecvBreak ==
    /\ apc = "recv"
    /\ ws = "closed"
    /\ is_streaming' = FALSE
    /\ stream_task' = cleanup_task
    /\ ws' = cleanup_ws
    /\ apc' = cleanup_pc
    /\ cur' = NoVal
    /\ log' = << >>
    /\ UNCHANGED <<loops, loopVars, wireVars, reachable>>
    /\ msg' = NoMsg
    /\ UNCHANGED hubVars

\* lines 404-406: json.loads raises an error that is not JSONDecodeError on
\* the frame received; break; then disconnect().
ARecvError ==
    /\ apc = "recv"
    /\ ws = "open"
    /\ is_streaming' = FALSE
    /\ stream_task' = cleanup_task
    /\ ws' = cleanup_ws
    /\ apc' = cleanup_pc
    /\ cur' = "binary"
    /\ log' = << >>
    /\ UNCHANGED <<loops, loopVars, wireVars, reachable>>
    /\ msg' = NoMsg
    /\ UNCHANGED hubVars

\* disconnect() lines 71-78: the task has ended; ws.close(); self.ws = None.
ACleanupDone ==
    /\ apc = "cleanup_wait"
    /\ task_done
    /\ stream_task' = "None"
    /\ ws' = "None"
    /\ apc' = after_cleanup
    /\ UNCHANGED <<is_streaming, loops, cur, log, loopVars, wireVars, reachable>>
    /\ UNCHANGED msg
    /\ UNCHANGED hubVars

\* lines 413-414: asyncio.sleep(RECONNECT_DELAY), back to the top of the loop.
ASleep ==
    /\ apc = "sleep"
    /\ waited' = waited + RECONNECT_DELAY
    /\ apc' = "connect"
    /\ UNCHANGED <<ws, streamVars, cur, log, attempts, streak, wireVars, reachable>>
    /\ UNCHANGED msg
    /\ UNCHANGED hubVars

(* ==================== BlackLineClient._stream_screen =================== *)
\* lines 132-137: the frame counter after one turn of the loop. The frame goes
\* out when the capture gave an image (ok) and send finds an open connection.
frames_after(ok) ==
    IF ok /\ ws = "open" THEN (frames + 1) % FrameMod ELSE frames

\* a loop that returns when a capture or a send has failed
turn_task_exit_on_failure(ok) ==
    IF ok /\ ws = "open" THEN "running" ELSE "ended"

\* lines 127-148: where the task is after one turn of the loop, whether the
\* capture gave an image and the send went out or not: suspended in its sleep
\* (_capture_screen and send catch their own errors).
turn_task(ok) == "running"

\* The task created by line 306 gets its first turn: lines 125-142, one frame
\* captured and sent (or dropped by _capture_screen / send), then the sleep.
TStart(ok) ==
    /\ stream_task = "new"
    /\ stream_task' = turn_task(ok)
    /\ frames' = frames_after(ok)
    /\ UNCHANGED <<apc, ws, is_streaming, loops, cur, log, loopVars, quiet, reachable>>
    /\ UNCHANGED msg
    /\ UNCHANGED hubVars

\* The sleep of line 142 is over: the next iteration, lines 127-142.
TFrame(ok) ==
    /\ stream_task = "running"
    /\ is_streaming
    /\ stream_task' = turn_task(ok)
    /\ frames' = frames_after(ok)
    /\ UNCHANGED <<apc, ws, is_streaming, loops, cur, log, loopVars, quiet, reachable>>
    /\ UNCHANGED msg
    /\ UNCHANGED hubVars

\* The task takes the cancel() of line 69 or 317: CancelledError at its await
\* (line 144, break), or before its first turn.
TCancelled ==
    /\ stream_task = "cancel_req"
    /\ stream_task' = "ended"
    /\ loops' = loops - 1
    /\ UNCHANGED <<apc, ws, is_streaming, cur, log, loopVars, wireVars, reachable>>
    /\ UNCHANGED msg
    /\ UNCHANGED hubVars

AgentInit ==
    /\ apc = "connect"
    /\ ws = "None"
    /\ is_streaming = FALSE
    /\ stream_task = "None"
    /\ loops = 0
    /\ cur = NoVal
    /\ log = << >>
    /\ attempts = 0
    /\ streak = 0
    /\ waited = 0
    /\ frames = 0
    /\ quiet = FALSE
    /\ reachable = TRUE
    /\ msg = NoMsg

AgentNext ==
    \/ NetChange
    \/ AConnectOk
    \/ AConnectFail
    \/ ASleepFail
    \/ AServerClose
    \/ \E k \in SimpleKinds, fail \in BOOLEAN : ARecvSimple(k, fail)
    \/ \E m \in OtherFrames : ARecvIgnored(m)
    \/ \E ev \in MouseEvents, b \in Buttons, xy \in BOOLEAN, fail \in BOOLEAN :
          AMouseEvent(ev, b, xy, fail)
    \/ \E ev \in KeyEvents, k \in Keys, fail \in BOOLEAN : AKeyboardEvent(ev, k, fail)
    \/ AShutdownAck
    \/ \E fail \in BOOLEAN : AShutdownRun(fail)
    \/ AStartStream
    \/ AStopStream
    \/ AStopDone
    \/ ARecvBreak
    \/ ARecvError
    \/ ACleanupDone
    \/ ASleep
    \/ \E ok \in BOOLEAN : TStart(ok)
    \/ \E ok \in BOOLEAN : TFrame(ok)
    \/ TCancelled

(* ============================ specification ============================ *)
HubInit ==
    /\ chan = [c \in Chans |-> "none"]
    /\ hpc = [c \in Chans |-> "idle"]
    /\ hname = [c \in Chans |-> NoVal]
    /\ hid = [c \in Chans |-> 0]
    /\ clients = <<>>
    /\ active_connections = EmptyMap
    /\ name_to_id = EmptyMap
    /\ screenshot_pending = EmptyMap
    /\ rpc = [r \in Reqs |-> "idle"]
    /\ rid = [r \in Reqs |-> 0]
    /\ fut = [r \in Reqs |-> "none"]
    /\ rsent = [r \in Reqs |-> NoVal]
    /\ rres = [r \in Reqs |-> NoVal]
    /\ owed = [c \in Chans |-> 0]
    /\ listOut = << >>
    /\ lastCmd = NoCmd

Init == HubInit /\ AgentInit

\* The connection handlers of the channels CS.
ConnNext(CS) ==
    \/ \E c \in CS, n \in Names : Accept(c, n)
    \/ \E c \in CS : DbSelect(c)
    \/ \E c \in CS : DbInsert(c)
    \/ \E c \in CS : Register(c)
    \/ \E c \in CS : SetOnline(c)
    \/ \E c \in CS : PeerClose(c)
    \/ \E c \in CS : Disconnect(c)
    \/ \E c \in CS : SetOffline(c)
    \/ \E c \in CS, m \in MsgKinds : Receive(c, m)

\* The /screenshot calls RS.
ShotNext(RS) ==
    \/ \E r \in RS, id \in Ids : ShotStart(r, id)
    \/ \E r \in RS : ShotTimeout(r)
    \/ \E r \in RS : ShotTimeoutExit(r)
    \/ \E r \in RS, ok \in BOOLEAN : ShotComplete(r, ok)

\* Connections and /list.
ConnSpecNext == ConnNext(1..MaxChan) \/ CmdListRead \/ CmdListAnswer
ConnSpec == Init /\ [][ConnSpecNext]_vars

\* Connections and /screenshot.
ShotSpecNext == ConnNext(1..ShotChan) \/ ShotNext(1..MaxReq)
ShotSpec == Init /\ [][ShotSpecNext]_vars

\* Connections and the four addressed commands.
CmdSpecNext ==
    \/ ConnNext(1..CmdChan)
    \/ ShotNext({1})
    \/ \E k \in CmdKinds, id \in Ids : Cmd(k, id)
    \/ \E id \in Ids : SendToClient(id)
CmdSpec == Init /\ [][CmdSpecNext]_vars

\* The Agent Runtime against any Hub.
AgentSpec == Init /\ [][AgentNext]_vars

\* The Agent Runtime under fair scheduling: the event loop resumes run and the
\* stream task whenever the await they are suspended in can return. Nothing
\* is assumed of what the Hub and the network do.
AgentFairness ==
    /\ WF_vars(AConnectOk)
    /\ WF_vars(AConnectFail)
    /\ WF_vars(ASleepFail)
    /\ WF_vars(\E fail \in BOOLEAN : AShutdownRun(fail))
    /\ WF_vars(AStopDone)
    /\ WF_vars(ARecvBreak)
    /\ WF_vars(ACleanupDone)
    /\ WF_vars(ASleep)
    /\ WF_vars(TCancelled)
AgentFairSpec == Init /\ [][AgentNext]_vars /\ AgentFairness

(* ============================== claims ================================ *)

\* C1: when a channel registers, the routing table holds one entry for its
\* agent and it points at that channel; and the disconnect handling of a
\* channel that is no longer the registered one (a newer channel of the same
\* agent has replaced it) leaves the agent's entry in place.
C1_StaleCloseKeepsRoute ==
    [][\A c \in Chans :
        /\ (hpc[c] = "register" /\ hpc'[c] = "online") =>
              /\ hid[c] \in DOMAIN active_connections'
              /\ active_connections'[hid[c]] = c
              /\ {n \in DOMAIN name_to_id' : name_to_id'[n] = hid[c]} = {hname[c]}
        /\ ( /\ hpc[c] = "loop" /\ hpc'[c] = "offline"
             /\ hid[c] \in DOMAIN active_connections
             /\ active_connections[hid[c]] # c ) =>
              /\ hid[c] \in DOMAIN active_connections'
              /\ active_connections'[hid[c]] = active_connections[hid[c]]
      ]_vars

\* C3: a call that timed out answers "timeout" (not "offline"), it times out
\* only with no reply received, and when a call returns through its finally
\* clause (timeout, photo or error) the pending table has no entry for its
\* agent.
C3_ExitClearsPending ==
    [][\A r \in Reqs :
        /\ (rpc[r] = "wait" /\ rpc'[r] = "timeout") => fut[r] = "pending"
        /\ (rpc[r] = "timeout" /\ rpc'[r] = "done") =>
              /\ rres'[r] = "timeout"
              /\ rid[r] \notin DOMAIN screenshot_pending'
        /\ (rpc[r] = "wait" /\ rpc'[r] = "done") =>
              /\ rres'[r] \in {"photo", "error"}
              /\ rid[r] \notin DOMAIN screenshot_pending'
      ]_vars

\* C3 witness: a call has returned with the timeout answer.
C3_Witness ==
    \E r \in Reqs : rpc[r] = "done" /\ rres[r] = "timeout"

\* C4: no call stays suspended on an unresolved Future once its agent has no
\* routing entry any more (the disconnect wakes it).
C4_DisconnectWakesWaiter ==
    \A r \in Reqs :
        (rpc[r] = "wait" /\ fut[r] = "pending") => rid[r] \in DOMAIN active_connections

\* C5: no two calls are suspended at once awaiting a reply from the same agent.
C5_OneWaiterPerAgent ==
    \A r1, r2 \in Reqs :
        ( /\ r1 # r2
          /\ rpc[r1] = "wait" /\ fut[r1] = "pending"
          /\ rpc[r2] = "wait" /\ fut[r2] = "pending" ) => rid[r1] # rid[r2]

\* C6: the online mark /list gives a row is true exactly when the routing
\* table holds an entry for that row's id at the time the rows are read.
C6_ListOnlineIffRouted ==
    [][(listOut = << >> /\ listOut' # << >>) =>
          \A i \in 1..Len(listOut'[1]) :
              listOut'[1][i] <=> (i \in DOMAIN active_connections)
      ]_vars

\* C7: a send_to_client call returns True or False; False when the id has no
\* routing entry and when no frame went out; True only when the frame went out
\* on the channel registered for the id; and the routing maps are unchanged.
C7_SendToClientBestEffort ==
    [][ /\ (lastCmd' # lastCmd /\ lastCmd'.ret # NoVal) =>
              /\ lastCmd'.ret \in {"True", "False"}
              /\ lastCmd'.id \notin DOMAIN active_connections => lastCmd'.ret = "False"
              /\ lastCmd'.to = 0 => lastCmd'.ret = "False"
              /\ lastCmd'.ret = "True" =>
                    /\ lastCmd'.id \in DOMAIN active_connections
                    /\ lastCmd'.to = active_connections[lastCmd'.id]
              /\ active_connections' = active_connections
              /\ name_to_id' = name_to_id
        /\ \A r \in Reqs : (rpc[r] = "idle" /\ rpc'[r] = "wait") =>
              /\ rsent'[r] = "True" <=> owed' # owed
              /\ active_connections' = active_connections
              /\ name_to_id' = name_to_id
      ]_vars

\* C7 witness: a send to a registered agent whose channel the peer has closed
\* returned False.
C7_Witness ==
    /\ lastCmd.ret = "False"
    /\ lastCmd.id \in DOMAIN active_connections
    /\ chan[active_connections[lastCmd.id]] = "closed"

\* C8: a command whose send_to_client returned False is not answered "sent",
\* and a /screenshot whose send returned False does not go on to wait.
C8_SendFailureReported ==
    /\ (lastCmd.kind \in CmdKinds /\ lastCmd.ret = "False") => lastCmd.reply # "sent"
    /\ \A r \in Reqs : rsent[r] = "False" => rpc[r] \notin {"wait", "timeout"}

\* C9: /shutdown, /browser, /type and /screenshot for an id with no routing
\* entry answer "offline" in the same step: no send_to_client call, no frame
\* out, no Future stored, no wait.
C9_OfflineFailsAtOnce ==
    [][ /\ ( /\ lastCmd' # lastCmd
             /\ lastCmd'.kind \in CmdKinds
             /\ lastCmd'.id \notin DOMAIN active_connections ) =>
              /\ lastCmd'.reply = "offline"
              /\ lastCmd'.ret = NoVal
              /\ lastCmd'.to = 0
              /\ screenshot_pending' = screenshot_pending
              /\ owed' = owed
        /\ \A r \in Reqs :
              ( /\ rpc[r] = "idle" /\ rpc'[r] # "idle"
                /\ rid'[r] \notin DOMAIN active_connections ) =>
              /\ rpc'[r] = "done"
              /\ rres'[r] = "offline"
              /\ fut'[r] = "none"
              /\ rsent'[r] = NoVal
              /\ screenshot_pending' = screenshot_pending
              /\ owed' = owed
      ]_vars

\* C9 witness: /screenshot and another command were both answered "offline",
\* the latter for an agent that had connected before.
C9_Witness ==
    /\ lastCmd.kind \in CmdKinds
    /\ lastCmd.reply = "offline"
    /\ lastCmd.id \in 1..Len(clients)
    /\ rres[1] = "offline"

\* C2: when the dispatch of a command over an open channel is over, exactly
\* one ack naming the command is among the envelopes it sent, whether the
\* handler's side effect raised or not.
C2_OneAckPerCommand ==
    (apc = "recv" /\ ws = "open" /\ cur \in CommandKinds) =>
        Cardinality({i \in 1..Len(log) : log[i] = Ack(cur)}) = 1

\* C10: every connection attempt but the first comes after a sleep of
\* RECONNECT_DELAY since the attempt before it; a failed attempt puts run into
\* that sleep, from which it goes to the next attempt, so that the attempt made
\* after N failures in a row is at least the N+1st; and run never leaves its
\* loop.
C10_ReconnectLoop ==
    [][ /\ (attempts' = attempts + 1) =>
              /\ attempts = 0 \/ waited >= RECONNECT_DELAY
              /\ attempts' >= streak + 1
        /\ (streak' = streak + 1) => apc' = "sleepfail"
        /\ (apc = "sleepfail" /\ apc' # apc) => apc' = "connect"
        /\ (apc = "sleep" /\ apc' # apc) => apc' = "connect"
        /\ apc' \in RunPositions
      ]_vars

\* C10 witness: three attempts were made and all three failed; run is in the
\* sleep before the fourth.
C10_Witness ==
    streak = 3 /\ attempts = 3 /\ apc = "sleepfail"

\* The Connected state of the Runtime: run is inside its message loop (at recv
\* or inside a handler) on an open connection.
Connected == ws = "open" /\ apc \in {"recv", "grace", "stop_wait"}

\* C11: under fair scheduling, if from some point on the Hub is always
\* reachable, the Runtime is Connected again and again, whatever state it was
\* in and however often the connection is lost.
C11_EventuallyReconnected ==
    (<>[]reachable) => []<>Connected

\* C11 witness: the Runtime is Connected after at least one earlier attempt,
\* with run back in its message loop.
C11_Witness ==
    Connected /\ attempts >= 2 /\ apc = "recv" /\ reachable

\* C12: whenever run is about to make a connection attempt, no capture loop
\* is alive, the stream task handle is cleared and the streaming flag is
\* false: the task of the connection before was cancelled and has ended.
C12_NoLoopOutlivesConnection ==
    (apc = "connect") => (loops = 0 /\ stream_task = "None" /\ ~is_streaming)

\* C12 witness: a connection attempt is about to begin after a connection on
\* which a stream was started and sent a frame, and on which no stop_stream
\* ack went out.
C12_Witness ==
    /\ apc = "connect"
    /\ attempts >= 1
    /\ frames = 1
    /\ ~quiet

\* C13: at most one capture loop is alive in every state, and a start_stream
\* dispatched while the streaming flag is set creates no task, leaves the
\* streaming state as it is and sends the ack only.
C13_OneCaptureLoop ==
    /\ [](loops <= 1)
    /\ [][(is_streaming /\ cur' = "start_stream" /\ <<cur, log>>' # <<cur, log>>) =>
            (UNCHANGED streamVars /\ log' = <<Ack("start_stream")>>)]_vars

\* C13 witness: a start_stream was dispatched that created no task, while the
\* one loop started before is running.
C13_Witness ==
    /\ cur = "start_stream"
    /\ log = <<Ack("start_stream")>>
    /\ is_streaming
    /\ stream_task = "running"
    /\ loops = 1

\* C14: a stop_stream dispatched while not streaming sends the stop_stream
\* ack, returns to the message loop and leaves the flag, the handle and the
\* loops as they are; and every stop_stream that has returned leaves the
\* not-streaming state, so that a second one changes nothing.
C14_StopWhenIdle ==
    /\ []((cur = "stop_stream" /\ apc = "recv") =>
             (~is_streaming /\ stream_task = "None"))
    /\ [][(apc = "recv" /\ ~is_streaming /\ cur' = "stop_stream"
              /\ <<cur, log>>' # <<cur, log>>) =>
            (UNCHANGED streamVars /\ log' = <<Ack("stop_stream")>> /\ apc' = "recv")]_vars

\* C14 witness: a stop_stream that found no task (it cancelled nothing) has
\* been acknowledged on an open connection.
C14_Witness ==
    /\ cur = "stop_stream"
    /\ log = <<Ack("stop_stream")>>
    /\ apc = "recv"
    /\ ws = "open"
    /\ ~is_streaming

\* C15: when the stop_stream ack is among what the dispatch has sent, no
\* capture loop is alive; and no stream_frame goes out between a stop_stream
\* ack and the next start_stream.
C15_StopAckAfterLoopEnd ==
    /\ []((cur = "stop_stream" /\ \E i \in 1..Len(log) : log[i] = Ack("stop_stream")) =>
             loops = 0)
    /\ [][(frames' # frames) => ~quiet]_vars

\* C15 witness: a stream that had sent a frame was cancelled by stop_stream
\* and the ack went out after it.
C15_Witness ==
    /\ cur = "stop_stream"
    /\ log = <<CancelTask, Ack("stop_stream")>>
    /\ frames = 1
    /\ quiet

\* C16: the platform shutdown call appears only after the shutdown ack in what
\* the dispatch has done, and it is made from the grace sleep that follows the
\* ack, never from the message loop.
C16_AckBeforeShutdown ==
    /\ [](\A i \in 1..Len(log) :
             (log[i] = OsShutdown) => (i > 1 /\ log[1] = Ack("shutdown")))
    /\ [][((\E i \in 1..Len(log') : log'[i] = OsShutdown)
             /\ ~(\E i \in 1..Len(log) : log[i] = OsShutdown)) =>
            (apc = "grace" /\ cur = "shutdown")]_vars

\* C16 witness: the ack went out and the platform shutdown was called after it.
C16_Witness ==
    cur = "shutdown" /\ log = <<Ack("shutdown"), OsShutdown>>

\* C19: a frame that is not valid JSON leaves run in its message loop on the
\* same connection, with the streaming state untouched.
C19_BadJsonSkipped ==
    [][(cur' \in {"badjson", "binary"} /\ cur' # cur) =>
          (apc' = "recv" /\ ws' = ws /\ UNCHANGED streamVars)]_vars

\* C20: a frame without type or with a type that is no command kind sends
\* nothing and changes neither the position of run, the connection, the
\* streaming state nor what is on the channel.
C20_UnknownTypeIgnored ==
    [][(cur' \in {"unknown", "notype"} /\ <<cur, log>>' # <<cur, log>>) =>
          (log' = << >> /\ UNCHANGED <<apc, ws, streamVars, wireVars>>)]_vars

\* C20 witness: a frame with an unknown type was dispatched while a stream
\* is running, and the stream is still running.
C20_Witness ==
    /\ cur = "unknown"
    /\ log = << >>
    /\ ws = "open"
    /\ is_streaming
    /\ stream_task = "running"

\* C17: while a channel is open and its handler is in the receive loop, no
\* frame arriving on it takes the handler out of the loop, removes a routing
\* entry or changes a directory row (steps in which no channel opens or closes
\* and no other handler moves).
C17_MalformedDiscarded ==
    [][\A c \in Chans :
        ( /\ hpc[c] = "loop"
          /\ chan[c] = "open"
          /\ chan' = chan
          /\ \A d \in Chans \ {c} : hpc'[d] = hpc[d] ) =>
            /\ hpc'[c] = "loop"
            /\ active_connections' = active_connections
            /\ clients' = clients
      ]_vars

\* C18: no name has two rows; a handler that got its id from
\* get_or_create_client holds the id of the one row of its name; rows are
\* never removed and never change their name, so the id of a name is fixed.
C18_OneRecordPerName ==
    /\ [](\A n \in Names : Cardinality(RowsNamed(n)) <= 1)
    /\ [](\A c \in Chans :
             (hpc[c] \in {"register", "online", "loop", "offline"}) =>
                 RowsNamed(hname[c]) = {hid[c]})
    /\ [][ /\ Len(clients') >= Len(clients)
           /\ \A i \in 1..Len(clients) : clients'[i].name = clients[i].name
         ]_vars

\* C18 witness: two first-time connects under one name ran concurrently (the
\* INSERT of one was refused), and the other is registered with the id of the
\* single row.
C18_Witness ==
    /\ Len(clients) = 1
    /\ \E c1, c2 \in Chans :
          /\ hpc[c1] = "dead"
          /\ hpc[c2] = "loop"
          /\ hid[c2] = 1

\* C21: an ack, a stream_frame, and a screenshot reply that arrives while the
\* pending table has no entry for the agent, leave the pending table, the
\* Futures, the routing maps, the directory, every caller's position and every
\* caller's answer as they are.
C21_OtherRepliesChangeNothing ==
    [][\A c \in Chans : \A m \in {"ack", "stream_frame", "screenshot"} :
        ( /\ Receive(c, m)
          /\ (m = "screenshot") => (hid[c] \notin DOMAIN screenshot_pending) ) =>
            /\ UNCHANGED <<screenshot_pending, fut, rpc, rres>>
            /\ UNCHANGED <<active_connections, name_to_id, clients, hpc>>
      ]_vars

\* C21 witness: a call was answered "timeout" and has returned, and the reply
\* to its request has arrived since on the agent's open channel, whose handler
\* is still in the receive loop.
C21_Witness ==
    \E c \in Chans, r \in Reqs :
        /\ rpc[r] = "done"
        /\ rres[r] = "timeout"
        /\ hid[c] = rid[r]
        /\ hpc[c] = "loop"
        /\ chan[c] = "open"
        /\ owed[c] = 0
        /\ \A r2 \in Reqs : rpc[r2] \in {"idle", "done"}

\* C25: when a call returns, the entry of another call that is still waiting
\* on its own unresolved Future stays in the pending table and still points
\* at that call.
C25_ExitKeepsOthersEntry ==
    [][\A r \in Reqs : \A r2 \in Reqs \ {r} :
        ( /\ rpc[r] \in {"wait", "timeout"}
          /\ rpc'[r] = "done"
          /\ rpc[r2] = "wait"
          /\ fut[r2] = "pending"
          /\ rid[r2] \in DOMAIN screenshot_pending
          /\ screenshot_pending[rid[r2]] = r2 ) =>
            /\ rid[r2] \in DOMAIN screenshot_pending'
            /\ screenshot_pending'[rid[r2]] = r2
      ]_vars

\* C26: every id that name_to_id maps a name to is a key of
\* active_connections, and every key of active_connections is the image of
\* exactly one name.
C26_RoutingMapsAgree ==
    /\ \A n \in DOMAIN name_to_id : name_to_id[n] \in DOMAIN active_connections
    /\ \A id \in DOMAIN active_connections :
          Cardinality({n \in DOMAIN name_to_id : name_to_id[n] = id}) = 1

\* C26 witness: one connection has been taken down and its handler has
\* returned, and another one is registered and in its receive loop.
C26_Witness ==
    \E c1, c2 \in Chans :
        /\ hpc[c1] = "done"
        /\ hpc[c2] = "loop"
        /\ hid[c2] \in DOMAIN active_connections
        /\ active_connections[hid[c2]] = c2

\* no handler is inside manager.connect or inside its disconnect handling
HubQuiet == \A c \in Chans : hpc[c] \in {"idle", "loop", "done", "dead"}

\* C27: whenever no connect and no disconnect handling is in progress, a row's
\* status is online exactly when the routing table holds an entry for its id.
C27_StatusMatchesRouting ==
    HubQuiet =>
        \A i \in 1..Len(clients) :
            (clients[i].status = "online") <=> (i \in DOMAIN active_connections)

\* C22: while the streaming flag is set one capture loop is alive; a task that
\* is alive leaves its loop only on a cancel() made by stop_stream or by
\* disconnect(), whatever its captures and sends did; and a loop ends only
\* after such a cancel.
C22_LoopEndsOnlyByCancel ==
    /\ [](is_streaming => (stream_task \in {"new", "running"} /\ loops = 1))
    /\ [][(stream_task \in {"new", "running"} /\ stream_task' \notin {"new", "running"}) =>
            /\ stream_task' = "cancel_req"
            /\ ~is_streaming'
            /\ cur' = "stop_stream" \/ apc' = "cleanup_wait"
         ]_vars
    /\ [][(loops' < loops) => (stream_task = "cancel_req")]_vars

\* C22 witness: a stream that has sent a frame is still running on a
\* connection that is closed, where every send fails.
C22_Witness ==
    /\ is_streaming
    /\ stream_task = "running"
    /\ ws = "closed"
    /\ frames = 1

\* the events of a mouse_event that press or release a button
ButtonEvents == {"mousedown", "mouseup", "click", "doubleclick"}

\* the actuator call of a button event
button_call(e) ==
    CASE e = "mousedown" -> "pyautogui.mouseDown"
      [] e = "mouseup" -> "pyautogui.mouseUp"
      [] e = "click" -> "pyautogui.click"
      [] OTHER -> "pyautogui.doubleClick"

\* C23: when a mouse_event envelope with a button event has been handled, the
\* actuator was called with button left for code 0, middle for 1, right for 2
\* and left for an absent field or another value, unless the move before the
\* button call raised.
C23_MouseButton ==
    LET claimed == CASE msg.button = "0" -> "left"
                     [] msg.button = "1" -> "middle"
                     [] msg.button = "2" -> "right"
                     [] OTHER -> "left"
    IN  (cur = "mouse_event" /\ msg.event \in ButtonEvents) =>
            \/ msg.xy /\ log = move_calls(TRUE)
            \/ \E i \in 1..Len(log) :
                   log[i] = <<button_call(msg.event), claimed>>

\* C24: the key handed to the actuator by keyup is the one keydown hands over
\* for the same name, which is the entry of the one table for a name in it
\* and the name itself otherwise.
C24_OneKeyTable ==
    /\ ( /\ cur = "keyboard_event"
         /\ msg.event = "keyup"
         /\ log # << >> ) =>
           log[1] = <<"pyautogui.keyUp", keydown_key(msg.key)>>
    /\ ( /\ cur = "keyboard_event"
         /\ msg.event = "keydown"
         /\ log # << >> ) =>
           log[1] = <<"pyautogui.keyDown", keydown_key(msg.key)>>

====
